---- MODULE Spec2Model ----
(***************************************************************************)
(* Tenant isolation pipeline of next-iwc: bearer token -> verified         *)
(* identity -> claims {sub, role, org} -> withRLS transaction -> row       *)
(* security policies -> resource handler query (leads, customers,          *)
(* appointments).                                                          *)
(*                                                                         *)
(* Spec      the resource handlers, one action per HTTP verb, run against *)
(*           the three tables by a few identities of two organizations.   *)
(* SpecAuth  the same handlers, driven by every shape of Authorization     *)
(*           header, identity-provider answer and identity metadata.      *)
(* SpecTx    withRLS taken apart at its await points on the shared         *)
(*           connection pool, for requests that overlap in time.          *)
(***************************************************************************)
EXTENDS Integers, Sequences, FiniteSets, TLC

VARIABLES
  rowSecurity,   \* whether the policies apply to the role the pool connects as
  customers,     \* table customers: set of rows
  leads,         \* table leads: set of rows
  appointments,  \* table appointments: set of rows
  now,           \* the data store's clock, now()
  nextId,        \* next fresh primary key (gen_random_uuid never repeats)
  createdUnder,  \* history: for each row id, the org of the claims its POST ran under
  last,          \* the last request a handler served, with its response
  conns,         \* SpecTx: the pool's connections
  slots,         \* SpecTx: the requests in flight
  view           \* SpecPage: the leads page's list in the browser

vars == <<rowSecurity, customers, leads, appointments, now, nextId, createdUnder,
          last, conns, slots, view>>

dataVars == <<customers, leads, appointments, now, nextId, createdUnder>>

poolVars == <<rowSecurity, conns, slots>>

-----------------------------------------------------------------------------
(* Bounds                                                                   *)

\* primary keys handed out over a run (rows ever inserted, all tables together)
MaxIds == 2
\* ticks of the data store's clock
MaxTime == 2
\* the longest text of a limit query parameter
MaxLen == 3
\* requests in flight at once in SpecTx
MaxSlots == 2
\* the most changes the realtime channel holds undelivered
MaxEvents == 1
\* the most entries the page's list grows to
MaxRows == 3

-----------------------------------------------------------------------------
(* JavaScript and SQL values                                                *)

\* JS values that are not strings; every other value of the model is a string
JsUndefined == "js:undefined"
JsNull == "js:null"
JsNumber == "js:42"
JsTrue == "js:true"
JsFalse == "js:false"

NonStrings == {JsUndefined, JsNull, JsNumber, JsTrue, JsFalse}

TypeofString(v) == v \notin NonStrings

\* x ?? y takes y for null and undefined only
Nullish(v) == v \in {JsUndefined, JsNull}

\* !v is true for undefined, null, "" and false; 42 and every other string are truthy
Falsy(v) == v \in {JsUndefined, JsNull, JsFalse, ""}

\* SQL NULL in a text or uuid column
SqlNull == "NULL"

\* an absent or unparsable date or time (parseDate gives undefined: no Date)
NoTime == 0

\* primary keys, as the uuid strings the handlers see
Ids == {ToString(i) : i \in 1..MaxIds}
Times == 1..MaxTime

Orgs == {"org1", "org2"}

\* text that casts to uuid: the organizations' ids
IsUuid(v) == v \in Orgs

-----------------------------------------------------------------------------
(* The identity provider                                                    *)

\* access tokens and the identity each belongs to: id and user_metadata
IdpUsers ==
  [ tokA |-> [id |-> "uA", role |-> "admin",     org_id |-> "org1"],
    tokS |-> [id |-> "uS", role |-> "staff",     org_id |-> "org1"],
    tokB |-> [id |-> "uB", role |-> "manager",   org_id |-> "org2"],
    tokG |-> [id |-> "uG", role |-> JsUndefined, org_id |-> "org2"],
    tokN |-> [id |-> "uN", role |-> JsNull,      org_id |-> "org1"],
    tokR |-> [id |-> "uR", role |-> JsNumber,    org_id |-> "org1"],
    tokU |-> [id |-> "uU", role |-> "staff",     org_id |-> JsUndefined],
    tokL |-> [id |-> "uL", role |-> JsUndefined, org_id |-> JsNull],
    tokE |-> [id |-> "uE", role |-> "staff",     org_id |-> ""],
    tokX |-> [id |-> "uX", role |-> "admin",     org_id |-> JsNumber] ]

Tokens == DOMAIN IdpUsers

\* supabase.auth.getUser(token): the answers the provider can give for a token.
\* A token it issued may have expired; any call can fail to return.
GetUser(token) ==
  (IF Len(token) = 1 /\ token[1] \in Tokens
     THEN {[kind |-> "user", user |-> IdpUsers[token[1]], message |-> JsUndefined],
           [kind |-> "error", user |-> JsNull, message |-> "token is expired"]}
     ELSE {[kind |-> "error", user |-> JsNull, message |-> "invalid JWT"]})
  \cup {[kind |-> "nouser", user |-> JsNull, message |-> JsUndefined],
        [kind |-> "throw", user |-> JsNull, message |-> "fetch failed"]}

-----------------------------------------------------------------------------
(* Credential resolver: the Authorization header                            *)

\* A header value is a sequence of lexemes: the scheme word, "SP" for one
\* whitespace character, or a run of other characters (a token).
BearerWords == {"Bearer", "bearer"}

RECURSIVE DropSpaces(_)
DropSpaces(h) ==
  IF h # <<>> /\ Head(h) = "SP" THEN DropSpaces(Tail(h)) ELSE h

\* authHeader.replace(/^Bearer\s+/i, ""): the scheme goes only with whitespace after it
StripBearer(h) ==
  IF Len(h) >= 2 /\ h[1] \in BearerWords /\ h[2] = "SP"
    THEN DropSpaces(Tail(h))
    ELSE h

RECURSIVE DropTrailingSpaces(_)
DropTrailingSpaces(h) ==
  IF h # <<>> /\ h[Len(h)] = "SP"
    THEN DropTrailingSpaces(SubSeq(h, 1, Len(h) - 1))
    ELSE h

\* String.prototype.trim
Trim(h) == DropTrailingSpaces(DropSpaces(h))

\* the route files: leads, customers and appointments as typed handlers, and
\* customers and appointments as the handlers written with `any`
Routes == {"leads", "customers", "customersTyped", "appointments", "appointmentsLegacy"}

LegacyRoutes == {"customers", "appointmentsLegacy"}

\* the appointments handlers trim the token
TrimmingRoutes == {"appointments", "appointmentsLegacy"}

\* the token each handler's getAuth hands to the provider
BearerToken(route, h) ==
  IF route \in TrimmingRoutes THEN Trim(StripBearer(h)) ELSE StripBearer(h)

-----------------------------------------------------------------------------
(* Claims extractor: getAuth                                                *)

AuthFailure(status, error, detail, called, thrown) ==
  [ok |-> FALSE, thrown |-> thrown, status |-> status, error |-> error,
   detail |-> detail, called |-> called,
   sub |-> JsUndefined, role |-> JsUndefined, orgId |-> JsUndefined]

AuthSuccess(user, role, orgId) ==
  [ok |-> TRUE, thrown |-> FALSE, status |-> 200, error |-> JsUndefined,
   detail |-> JsUndefined, called |-> TRUE,
   sub |-> user.id, role |-> role, orgId |-> orgId]

\* typeof metadata?.role === "string" ? metadata.role : "guest"
TypedRole(meta) == IF TypeofString(meta.role) THEN meta.role ELSE "guest"

\* typeof metadata?.org_id === "string" ? metadata.org_id : null
TypedOrg(meta) == IF TypeofString(meta.org_id) THEN meta.org_id ELSE JsNull

\* (user.user_metadata as any)?.role ?? "guest"
LegacyRole(meta) == IF Nullish(meta.role) THEN "guest" ELSE meta.role

\* (user.user_metadata as any)?.org_id ?? null
LegacyOrg(meta) == IF Nullish(meta.org_id) THEN JsNull ELSE meta.org_id

MetaRole(route, meta) ==
  IF route \in LegacyRoutes THEN LegacyRole(meta) ELSE TypedRole(meta)

MetaOrg(route, meta) ==
  IF route \in LegacyRoutes THEN LegacyOrg(meta) ELSE TypedOrg(meta)

\* variant of GetAuth: a call that throws is answered like a rejected token
GetAuthThrowIsRejection(route, h, idp) ==
  IF BearerToken(route, h) = <<>>
    THEN AuthFailure(401, "Missing Authorization Bearer token", JsUndefined, FALSE, FALSE)
  ELSE IF idp.kind # "user"
    THEN AuthFailure(401, "Unauthorized", idp.message, TRUE, FALSE)
  ELSE IF Falsy(MetaOrg(route, idp.user))
    THEN AuthFailure(400, "Missing org_id in user metadata", JsUndefined, TRUE, FALSE)
  ELSE AuthSuccess(idp.user, MetaRole(route, idp.user), MetaOrg(route, idp.user))

\* variant of GetAuth: a token that the preceding request resolved is refused
GetAuthOnce(route, h, idp) ==
  IF BearerToken(route, h) = <<>>
    THEN AuthFailure(401, "Missing Authorization Bearer token", JsUndefined, FALSE, FALSE)
  ELSE IF idp.kind = "throw"
    THEN AuthFailure(500, "Server error", idp.message, TRUE, TRUE)
  ELSE IF idp.kind # "user" \/ (last.auth.ok /\ last.hdr = h)
    THEN AuthFailure(401, "Unauthorized", idp.message, TRUE, FALSE)
  ELSE IF Falsy(MetaOrg(route, idp.user))
    THEN AuthFailure(400, "Missing org_id in user metadata", JsUndefined, TRUE, FALSE)
  ELSE AuthSuccess(idp.user, MetaRole(route, idp.user), MetaOrg(route, idp.user))

\* getAuth(req), given the provider's answer idp to the token (read only when
\* the token is not empty)
GetAuth(route, h, idp) ==
  IF BearerToken(route, h) = <<>>
    THEN AuthFailure(401, "Missing Authorization Bearer token", JsUndefined, FALSE, FALSE)
  ELSE IF idp.kind = "throw"
    THEN AuthFailure(500, "Server error", idp.message, TRUE, TRUE)
  ELSE IF idp.kind # "user"
    THEN AuthFailure(401, "Unauthorized", idp.message, TRUE, FALSE)
  ELSE IF Falsy(MetaOrg(route, idp.user))
    THEN AuthFailure(400, "Missing org_id in user metadata", JsUndefined, TRUE, FALSE)
  ELSE AuthSuccess(idp.user, MetaRole(route, idp.user), MetaOrg(route, idp.user))

\* the claims object each handler passes to withRLS
HandlerClaims(route, auth) ==
  IF route \in LegacyRoutes
    THEN [sub |-> auth.sub, role |-> auth.role, org_id |-> auth.orgId]
    ELSE [sub |-> auth.sub, role |-> auth.role, orgId |-> auth.orgId]

-----------------------------------------------------------------------------
(* Scoped transaction wrapper: the setting the policies read                *)

\* JSON.stringify(claims): members whose value is undefined are left out
JsonStringify(obj) ==
  [k \in {x \in DOMAIN obj : obj[x] # JsUndefined} |-> obj[k]]

\* auth.jwt() ->> key: the member as text, NULL when absent or JSON null
JsonText(j, key) ==
  IF key \in DOMAIN j /\ j[key] # JsNull THEN j[key] ELSE SqlNull

\* org_id = ((select auth.jwt())->>'org_id')::uuid
OrgMatches(j, r) ==
  JsonText(j, "org_id") # SqlNull /\ r.orgId = JsonText(j, "org_id")

\* the cast to uuid raises on text that is no uuid
CastFails(j) ==
  JsonText(j, "org_id") # SqlNull /\ ~IsUuid(JsonText(j, "org_id"))

\* ((select auth.jwt())->>'role') in ('admin', 'manager')
RoleIsManager(j) == JsonText(j, "role") \in {"admin", "manager"}

\* variant of PolicyUsing: the update policies look at the role alone
PolicyUsingRoleOnly(tbl, cmd, j, r) ==
  CASE cmd = "select" -> OrgMatches(j, r)
    [] cmd = "insert" -> OrgMatches(j, r)
    [] cmd = "update" -> RoleIsManager(j)
    [] cmd = "delete" -> OrgMatches(j, r)

\* The policies of migrations 0002/0004 and of the appointments split: the
\* USING / WITH CHECK expression of table tbl for command cmd; a command with
\* no policy is denied.
PolicyUsing(tbl, cmd, j, r) ==
  CASE cmd = "select" -> OrgMatches(j, r)
    [] cmd = "insert" -> OrgMatches(j, r)
    [] cmd = "update" ->
         IF tbl = "appointments" THEN OrgMatches(j, r)
         ELSE IF tbl = "users" THEN FALSE
         ELSE OrgMatches(j, r) /\ RoleIsManager(j)
    [] cmd = "delete" ->
         IF tbl = "appointments" THEN OrgMatches(j, r) ELSE FALSE

\* Row security binds the role only if that role neither owns the tables nor
\* bypasses row security; no migration forces it and withRLS sets no role.
Permits(tbl, cmd, j, r) ==
  rowSecurity = "bypassed" \/ PolicyUsing(tbl, cmd, j, r)

\* evaluating a policy over at least one candidate row raises when the cast fails
PolicyRaises(j, candidates) ==
  rowSecurity = "enforced" /\ candidates # {} /\ CastFails(j)

-----------------------------------------------------------------------------
(* The data store: tables, constraints, statements                          *)

TableOf(route) ==
  CASE route \in {"customers", "customersTyped"} -> "customers"
    [] route \in {"appointments", "appointmentsLegacy"} -> "appointments"
    [] OTHER -> route

\* public.users, kept in step with the provider's identities by the trigger
\* sync_user_from_auth
PublicUsers ==
  { [id |-> "uA", orgId |-> "org1"],
    [id |-> "uS", orgId |-> "org1"],
    [id |-> "uB", orgId |-> "org2"] }

Db == [customers |-> customers, leads |-> leads, appointments |-> appointments]

AllRows(db) == db.customers \cup db.leads \cup db.appointments

\* u_customers_org_phone, u_leads_org_bride_phone (NULLs are distinct)
\* variant of UniqueOk: customers has no u_customers_org_phone index
UniqueOkLeadsOnly(db) ==
  \A a, b \in db.leads :
    (a.id # b.id /\ a.bridePhone # SqlNull) =>
      ~(a.orgId = b.orgId /\ a.bridePhone = b.bridePhone)

UniqueOk(db) ==
  /\ \A a, b \in db.customers :
       a.id # b.id => ~(a.orgId = b.orgId /\ a.phone = b.phone)
  /\ \A a, b \in db.leads :
       (a.id # b.id /\ a.bridePhone # SqlNull) =>
         ~(a.orgId = b.orgId /\ a.bridePhone = b.bridePhone)

\* customer_id references customers(id), staff_id references users(id): the
\* referenced row must exist, in whatever organization
ForeignKeysOk(db) ==
  /\ \A l \in db.leads :
       l.customerId = SqlNull \/ \E c \in db.customers : c.id = l.customerId
  /\ \A a \in db.appointments :
       /\ a.customerId = SqlNull \/ \E c \in db.customers : c.id = a.customerId
       /\ a.staffId = SqlNull \/ \E u \in PublicUsers : u.id = a.staffId

\* not null columns, and appt_time_valid: check (end_at > start_at)
\* variant of ChecksOk: the table has no appt_time_valid constraint
ChecksOkUntimed(db) ==
  /\ \A c \in db.customers : c.name # SqlNull /\ c.phone # SqlNull
  /\ \A l \in db.leads : l.brideName # SqlNull
  /\ \A a \in db.appointments : a.startAt # NoTime /\ a.endAt # NoTime

ChecksOk(db) ==
  /\ \A c \in db.customers : c.name # SqlNull /\ c.phone # SqlNull
  /\ \A l \in db.leads : l.brideName # SqlNull
  /\ \A a \in db.appointments :
       a.startAt # NoTime /\ a.endAt # NoTime /\ a.endAt > a.startAt

ConstraintsOk(db) == UniqueOk(db) /\ ForeignKeysOk(db) /\ ChecksOk(db)

\* a statement's outcome: it raised, or returned rows and left the tables as db
Raised(db) == [err |-> TRUE, rows |-> <<>>, db |-> db]

Returned(rows, db) == [err |-> FALSE, rows |-> rows, db |-> db]

\* the sequences that list each row of S once
ListingsOf(S) ==
  {s \in [1..Cardinality(S) -> S] : \A i, j \in DOMAIN s : i # j => s[i] # s[j]}

\* tx.insert(table).values(row).returning() under the claims setting j
InsertRow(tbl, row, j, db) ==
  LET after == [db EXCEPT ![tbl] = @ \cup {row}] IN
  IF \/ ~IsUuid(row.orgId)
     \/ PolicyRaises(j, {row})
     \/ ~Permits(tbl, "insert", j, row)
     \/ ~Permits(tbl, "select", j, row)
     \/ ~ConstraintsOk(after)
    THEN Raised(db)
    ELSE Returned(<<row>>, after)

\* set(patch): the named columns take the patch's values
ApplyPatch(r, patch) ==
  [c \in DOMAIN r |-> IF c \in DOMAIN patch THEN patch[c] ELSE r[c]]

\* tx.update(table).set(patch).where(eq(table.id, id)).returning()
UpdateById(tbl, id, patch, j, db) ==
  LET candidates == {r \in db[tbl] : r.id = id}
      targets == {r \in candidates :
                    Permits(tbl, "update", j, r) /\ Permits(tbl, "select", j, r)}
      written == {ApplyPatch(r, patch) : r \in targets}
      after == [db EXCEPT ![tbl] = (@ \ targets) \cup written]
  IN
  IF \/ PolicyRaises(j, candidates)
     \/ \E n \in written : ~Permits(tbl, "update", j, n)
     \/ ~ConstraintsOk(after)
    THEN Raised(db)
    ELSE CHOOSE out \in {Returned(s, after) : s \in ListingsOf(written)} : TRUE

\* tx.delete(table).where(eq(table.id, id)).returning(); deleting a customer
\* cascades to its appointments and is refused while a lead refers to it
DeleteById(tbl, id, j, db) ==
  LET candidates == {r \in db[tbl] : r.id = id}
      targets == {r \in candidates :
                    Permits(tbl, "delete", j, r) /\ Permits(tbl, "select", j, r)}
      gone == {r.id : r \in targets}
      cascaded == IF tbl = "customers"
                    THEN [db EXCEPT !.appointments = {a \in @ : a.customerId \notin gone}]
                    ELSE db
      after == [cascaded EXCEPT ![tbl] = @ \ targets]
  IN
  IF \/ PolicyRaises(j, candidates)
     \/ ~ConstraintsOk(after)
    THEN Raised(db)
    ELSE CHOOSE out \in {Returned(s, after) : s \in ListingsOf(targets)} : TRUE

-----------------------------------------------------------------------------
(* List queries: limit, cursor, order                                       *)

DigitChars == <<"0", "1", "2", "3", "4", "5", "6", "7", "8", "9">>

IsDigit(c) == \E d \in DOMAIN DigitChars : DigitChars[d] = c

DigitValue(c) == (CHOOSE d \in DOMAIN DigitChars : DigitChars[d] = c) - 1

RECURSIVE LeadingDigits(_)
LeadingDigits(s) ==
  IF s # <<>> /\ IsDigit(Head(s)) THEN <<Head(s)>> \o LeadingDigits(Tail(s)) ELSE <<>>

RECURSIVE DecimalValue(_)
DecimalValue(ds) ==
  IF ds = <<>> THEN 0
  ELSE 10 * DecimalValue(SubSeq(ds, 1, Len(ds) - 1)) + DigitValue(ds[Len(ds)])

\* parseInt(text, 10): an optional sign and the digits that follow; NaN without digits
ParseInt(text) ==
  LET negative == text # <<>> /\ Head(text) = "-"
      digits == LeadingDigits(IF negative THEN Tail(text) ELSE text)
  IN IF digits = <<>> THEN [nan |-> TRUE, n |-> 0]
     ELSE [nan |-> FALSE,
           n |-> IF negative THEN 0 - DecimalValue(digits) ELSE DecimalValue(digits)]

\* Math.min(parseInt(searchParams.get("limit") || "50", 10) || 50, 200);
\* an absent parameter reads as the empty text
PageLimit(raw) ==
  LET parsed == ParseInt(IF raw = <<>> THEN <<"5", "0">> ELSE raw)
      wanted == IF parsed.nan \/ parsed.n = 0 THEN 50 ELSE parsed.n
  IN IF wanted < 200 THEN wanted ELSE 200

\* the column a list is ordered and paged by
SortKey(tbl, r) == IF tbl = "appointments" THEN r.startAt ELSE r.createdAt

\* variant of ListWhere: the list query without eq(table.orgId, orgId)
ListWhereAnyOrg(tbl, w, r) ==
  \/ w.after = NoTime
  \/ IF w.sortDesc THEN SortKey(tbl, r) < w.after ELSE SortKey(tbl, r) > w.after

\* conds: eq(table.orgId, orgId), and past the cursor when after parses as a date
ListWhere(tbl, w, r) ==
  /\ r.orgId = w.orgId
  /\ \/ w.after = NoTime
     \/ IF w.sortDesc THEN SortKey(tbl, r) < w.after ELSE SortKey(tbl, r) > w.after

\* orderBy(desc(key)) or orderBy(asc(key)); rows with equal keys come in any order
Ordered(tbl, s, sortDesc) ==
  \A i, j \in DOMAIN s :
    i < j => IF sortDesc THEN SortKey(tbl, s[i]) >= SortKey(tbl, s[j])
                         ELSE SortKey(tbl, s[i]) <= SortKey(tbl, s[j])

FirstN(s, n) == SubSeq(s, 1, IF n < Len(s) THEN n ELSE Len(s))

\* tx.select().from(table).where(whereExpr).orderBy(orderExpr).limit(limit):
\* the outcomes the data store may give
SelectPage(tbl, w, j, db) ==
  LET candidates == {r \in db[tbl] : ListWhere(tbl, w, r)}
      visible == {r \in candidates : Permits(tbl, "select", j, r)}
  IN
  IF ~IsUuid(w.orgId) \/ PolicyRaises(j, candidates) \/ w.limit < 0
    THEN {Raised(db)}
    ELSE {Returned(FirstN(s, w.limit), db) :
            s \in {o \in ListingsOf(visible) : Ordered(tbl, o, w.sortDesc)}}

\* nextCursor: the last row's key when the page is full, else none
NextCursor(tbl, rows, limit) ==
  IF Len(rows) = limit /\ rows # <<>> THEN SortKey(tbl, rows[Len(rows)]) ELSE NoTime

-----------------------------------------------------------------------------
(* Request bodies: the handlers' input mappers                              *)

\* typeof value === "string" && value.trim() ? value : undefined
ParseString(v) == IF TypeofString(v) /\ v # "" THEN v ELSE JsUndefined

ParseNullableString(v) == IF v = JsNull THEN JsNull ELSE ParseString(v)

ParseBoolean(v) ==
  IF v \in {JsTrue, JsFalse} THEN v
  ELSE IF v = "true" THEN JsTrue
  ELSE IF v = "false" THEN JsFalse
  ELSE JsUndefined

\* x ?? d
Coalesce(v, d) == IF Nullish(v) THEN d ELSE v

\* a JS value as the column value the driver sends
SqlOf(v) ==
  CASE v = JsNull -> SqlNull
    [] v = JsTrue -> TRUE
    [] v = JsFalse -> FALSE
    [] OTHER -> v

\* the members of a mapped payload that are not undefined, as column values
DefinedColumns(data, timeColumns) ==
  [c \in {x \in DOMAIN data :
            IF x \in timeColumns THEN data[x] # NoTime ELSE data[x] # JsUndefined}
     |-> IF c \in timeColumns THEN data[c] ELSE SqlOf(data[c])]

\* leads: mapLeadInput
MapLeadInput(body) ==
  [brideName  |-> ParseString(body.bride_name),
   bridePhone |-> Coalesce(ParseNullableString(body.bride_phone), JsNull),
   visited    |-> Coalesce(ParseBoolean(body.visited), JsFalse),
   customerId |-> Coalesce(ParseNullableString(body.customer_id), JsNull)]

\* customers (route.ts): mapCustomerInput(input: any)
\* variant of MapCustomerInputLegacy: the body's org_id is mapped too
MapCustomerInputWithOrg(body) ==
  [name  |-> body.name,
   phone |-> body.phone,
   email |-> Coalesce(body.email, JsNull),
   orgId |-> body.org_id]

MapCustomerInputLegacy(body) ==
  [name  |-> body.name,
   phone |-> body.phone,
   email |-> Coalesce(body.email, JsNull)]

\* customers (typed): mapCustomerInput with readString / readNullable
MapCustomerInputTyped(body) ==
  [name  |-> IF TypeofString(body.name) THEN body.name ELSE JsUndefined,
   phone |-> IF TypeofString(body.phone) THEN body.phone ELSE JsUndefined,
   email |-> IF TypeofString(body.email) \/ body.email = JsNull
               THEN body.email ELSE JsUndefined]

MapCustomerInput(route, body) ==
  IF route = "customers" THEN MapCustomerInputLegacy(body)
  ELSE MapCustomerInputTyped(body)

\* appointments: mapApptInput; parseDate gives no date for a missing value
MapApptInputTyped(body) ==
  [customerId |-> Coalesce(ParseString(body.customer_id), JsNull),
   staffId    |-> Coalesce(ParseString(body.staff_id), JsNull),
   startAt    |-> body.start_at,
   endAt      |-> body.end_at]

\* appointments (written with `any`): mapApptInput(input: any)
MapApptInputLegacy(body) ==
  [customerId |-> Coalesce(body.customer_id, JsNull),
   staffId    |-> Coalesce(body.staff_id, JsNull),
   startAt    |-> body.start_at,
   endAt      |-> body.end_at]

MapApptInput(route, body) ==
  IF route = "appointmentsLegacy" THEN MapApptInputLegacy(body)
  ELSE MapApptInputTyped(body)

-----------------------------------------------------------------------------
(* Resource handlers                                                        *)

NoAnswer == [kind |-> "none", user |-> JsNull, message |-> JsUndefined]

\* no transaction, so no request.jwt.claims setting
NoSetting == <<>>

NoArgs == <<>>

NoRequest ==
  [route |-> "none", verb |-> "none", hdr |-> <<>>, idp |-> NoAnswer, args |-> NoArgs,
   auth |-> AuthFailure(0, JsUndefined, JsUndefined, FALSE, FALSE),
   status |-> 0, error |-> JsUndefined, detail |-> JsUndefined, rows |-> <<>>,
   tx |-> FALSE, jwt |-> NoSetting, via |-> "none"]

\* the provider's possible answers to the request's token; none when getAuth
\* returns before calling it
Answers(route, h, in) ==
  IF BearerToken(route, h) = <<>> THEN {NoAnswer}
  ELSE {a \in GetUser(BearerToken(route, h)) : a.kind \in in.kinds}

\* withRLS: set_config('request.jwt.claims', JSON.stringify(claims), true)
ClaimsSetting(route, auth) == JsonStringify(HandlerClaims(route, auth))

\* if ("error" in auth) return auth.error; a throw inside getAuth lands in the
\* handler's catch
Refused(route, verb, h, idp, auth) ==
  /\ last' = [route |-> route, verb |-> verb, hdr |-> h, idp |-> idp, args |-> NoArgs,
              auth |-> auth, status |-> auth.status, error |-> auth.error,
              detail |-> auth.detail, rows |-> <<>>, tx |-> FALSE, jwt |-> NoSetting,
              via |-> "none"]
  /\ UNCHANGED <<dataVars, poolVars, view>>

\* a 400 returned before withRLS is called
Rejected(route, verb, h, idp, args, auth, error) ==
  /\ last' = [route |-> route, verb |-> verb, hdr |-> h, idp |-> idp, args |-> args,
              auth |-> auth, status |-> 400, error |-> error,
              detail |-> JsUndefined, rows |-> <<>>, tx |-> FALSE, jwt |-> NoSetting,
              via |-> "none"]
  /\ UNCHANGED <<dataVars, poolVars, view>>

\* withRLS ran the statement: commit and the rows, or rollback and the catch's 500
Completed(route, verb, h, idp, args, auth, okStatus, out) ==
  /\ last' = [route |-> route, verb |-> verb, hdr |-> h, idp |-> idp, args |-> args,
              auth |-> auth,
              status |-> IF out.err THEN 500 ELSE okStatus,
              error |-> IF out.err THEN "Server error" ELSE JsUndefined,
              detail |-> IF out.err THEN "database error" ELSE JsUndefined,
              rows |-> out.rows, tx |-> TRUE, jwt |-> ClaimsSetting(route, auth),
              via |-> "withRLS"]
  /\ customers' = out.db.customers
  /\ leads' = out.db.leads
  /\ appointments' = out.db.appointments
  /\ UNCHANGED <<poolVars, view>>

MapInput(route, body) ==
  CASE TableOf(route) = "leads" -> MapLeadInput(body)
    [] TableOf(route) = "customers" -> MapCustomerInput(route, body)
    [] TableOf(route) = "appointments" -> MapApptInput(route, body)

TimeColumns(route) ==
  IF TableOf(route) = "appointments" THEN {"startAt", "endAt"} ELSE {}

\* POST's checks on the mapped body: the 400 message, or undefined to go on
PostError(route, data) ==
  CASE TableOf(route) = "leads" ->
         IF Falsy(data.brideName) THEN "bride_name, groom_name are required"
         ELSE JsUndefined
    [] TableOf(route) = "customers" ->
         IF Falsy(data.name) \/ Falsy(data.phone) THEN "name and phone are required"
         ELSE JsUndefined
    [] TableOf(route) = "appointments" ->
         IF data.startAt = NoTime \/ data.endAt = NoTime
           THEN "start_at and end_at are required"
         ELSE IF data.endAt <= data.startAt THEN "end_at must be after start_at"
         ELSE JsUndefined

\* variant of InsertValues: the row's orgId is not the caller's
InsertValuesFixedOrg(route, data, auth, id, t) ==
  CASE TableOf(route) = "leads" ->
         [id |-> id, orgId |-> "org1", brideName |-> data.brideName,
          bridePhone |-> SqlOf(data.bridePhone), visited |-> SqlOf(data.visited),
          customerId |-> SqlOf(data.customerId), createdAt |-> t]
    [] TableOf(route) = "customers" ->
         [id |-> id, orgId |-> "org1", name |-> data.name, phone |-> data.phone,
          email |-> SqlOf(Coalesce(data.email, JsNull)), createdAt |-> t]
    [] TableOf(route) = "appointments" ->
         [id |-> id, orgId |-> "org1", customerId |-> SqlOf(data.customerId),
          staffId |-> SqlOf(data.staffId), startAt |-> data.startAt,
          endAt |-> data.endAt, createdAt |-> t]

\* the orgId of the values POST inserts: the typed handlers name it in the
\* payload; the legacy handlers write { orgId: org_id, ...data }, where a member
\* orgId of data would come last
InsertOrg(route, data, auth) ==
  IF route \in LegacyRoutes /\ "orgId" \in DOMAIN data THEN data.orgId ELSE auth.orgId

\* the row POST inserts: orgId from the claims, the rest from the mapped body
InsertValues(route, data, auth, id, t) ==
  CASE TableOf(route) = "leads" ->
         [id |-> id, orgId |-> InsertOrg(route, data, auth),
          brideName |-> data.brideName,
          bridePhone |-> SqlOf(data.bridePhone), visited |-> SqlOf(data.visited),
          customerId |-> SqlOf(data.customerId), createdAt |-> t]
    [] TableOf(route) = "customers" ->
         [id |-> id, orgId |-> InsertOrg(route, data, auth),
          name |-> data.name, phone |-> data.phone,
          email |-> SqlOf(Coalesce(data.email, JsNull)), createdAt |-> t]
    [] TableOf(route) = "appointments" ->
         [id |-> id, orgId |-> InsertOrg(route, data, auth),
          customerId |-> SqlOf(data.customerId),
          staffId |-> SqlOf(data.staffId), startAt |-> data.startAt,
          endAt |-> data.endAt, createdAt |-> t]

\* PATCH's checks before the update: the 400 message, or undefined to go on
PatchError(route, body, data, patch) ==
  IF (IF route \in LegacyRoutes THEN Falsy(body.id) ELSE ~TypeofString(body.id))
    THEN "id is required"
  ELSE IF /\ TableOf(route) = "appointments"
          /\ data.startAt # NoTime /\ data.endAt # NoTime
          /\ data.endAt <= data.startAt
    THEN "end_at must be after start_at"
  ELSE IF route # "appointmentsLegacy" /\ DOMAIN patch = {} THEN "no fields to update"
  ELSE JsUndefined

Bodies(route, verb, in) ==
  CASE TableOf(route) = "leads" ->
         IF verb = "POST" THEN in.leadPosts ELSE in.leadPatches
    [] TableOf(route) = "customers" ->
         IF verb = "POST" THEN in.customerPosts ELSE in.customerPatches
    [] TableOf(route) = "appointments" ->
         IF verb = "POST" THEN in.apptPosts ELSE in.apptPatches

\* GET: list the caller's rows
GET(route, in) ==
  \E h \in in.hdrs : \E idp \in Answers(route, h, in) :
    LET auth == GetAuth(route, h, idp) IN
    IF ~auth.ok THEN Refused(route, "GET", h, idp, auth)
    ELSE \E q \in in.queries :
           LET w == [orgId |-> auth.orgId, after |-> q.after,
                     sortDesc |-> q.sortDesc, limit |-> PageLimit(q.limit)]
           IN \E out \in SelectPage(TableOf(route), w, ClaimsSetting(route, auth), Db) :
                /\ Completed(route, "GET", h, idp, q, auth, 200, out)
                /\ UNCHANGED <<now, nextId, createdUnder>>

\* POST: create a row in the caller's org
POST(route, in) ==
  \E h \in in.hdrs : \E idp \in Answers(route, h, in) :
    LET auth == GetAuth(route, h, idp) IN
    IF ~auth.ok THEN Refused(route, "POST", h, idp, auth)
    ELSE \E body \in Bodies(route, "POST", in) :
           LET data == MapInput(route, body) IN
           IF PostError(route, data) # JsUndefined
             THEN Rejected(route, "POST", h, idp, body, auth, PostError(route, data))
           ELSE
             LET id == ToString(nextId)
                 row == InsertValues(route, data, auth, id, now)
                 out == InsertRow(TableOf(route), row, ClaimsSetting(route, auth), Db)
             IN /\ nextId <= MaxIds
                /\ Completed(route, "POST", h, idp, body, auth, 201, out)
                /\ nextId' = IF out.err THEN nextId ELSE nextId + 1
                /\ createdUnder' = IF out.err THEN createdUnder
                                   ELSE (id :> auth.orgId) @@ createdUnder
                /\ UNCHANGED now

\* PATCH: update the row named by the body's id
PATCH(route, in) ==
  \E h \in in.hdrs : \E idp \in Answers(route, h, in) :
    LET auth == GetAuth(route, h, idp) IN
    IF ~auth.ok THEN Refused(route, "PATCH", h, idp, auth)
    ELSE \E body \in Bodies(route, "PATCH", in) :
           LET data == MapInput(route, body)
               patch == DefinedColumns(data, TimeColumns(route))
           IN
           IF PatchError(route, body, data, patch) # JsUndefined
             THEN Rejected(route, "PATCH", h, idp, body, auth,
                           PatchError(route, body, data, patch))
           ELSE
             LET out == UpdateById(TableOf(route), body.id, patch,
                                   ClaimsSetting(route, auth), Db)
             IN /\ Completed(route, "PATCH", h, idp, body, auth, 200, out)
                /\ UNCHANGED <<now, nextId, createdUnder>>

\* DELETE: remove the row named by ?id=
DELETE(route, in) ==
  \E h \in in.hdrs : \E idp \in Answers(route, h, in) :
    LET auth == GetAuth(route, h, idp) IN
    IF ~auth.ok THEN Refused(route, "DELETE", h, idp, auth)
    ELSE \E id \in in.ids :
           IF Falsy(id)
             THEN Rejected(route, "DELETE", h, idp, [id |-> id], auth, "id is required")
           ELSE
             LET out == DeleteById(TableOf(route), id, ClaimsSetting(route, auth), Db)
             IN /\ Completed(route, "DELETE", h, idp, [id |-> id], auth, 200, out)
                /\ UNCHANGED <<now, nextId, createdUnder>>

\* the pages that subscribe to changes of their table
Pages == {"leads", "customers", "appointments"}

\* the claims of a browser session's access token: the user's metadata is
\* nested in it, so it has no member org_id
SessionJwt(user) == [sub |-> user.id, role |-> "authenticated"]

\* channel.on("postgres_changes", { table, filter }, cb).subscribe() in a page:
\* the realtime service sends the browser the changed rows of the table that
\* pass the filter built from localStorage's org_id and that the session may
\* select under the policies; the customers page subscribes without a filter
\* when nothing is stored
Subscribe(page, in) ==
  \E h \in in.hdrs \ {<<>>} : \E idp \in Answers(page, h, in) :
  \E stored \in {JsNull} \cup Orgs :
    LET j == SessionJwt(idp.user)
        sent == {r \in Db[page] :
                   /\ stored = JsNull \/ r.orgId = stored
                   /\ PolicyUsing(page, "select", j, r)}
    IN /\ idp.kind = "user"
       /\ page # "customers" => stored # JsNull
       /\ \E rows \in ListingsOf(sent) :
            last' = [NoRequest EXCEPT !.route = page, !.verb = "SUBSCRIBE", !.hdr = h,
                                      !.idp = idp, !.args = [org_id |-> stored],
                                      !.rows = rows, !.jwt = j, !.via = "realtime"]
       /\ UNCHANGED <<dataVars, poolVars, view>>

\* the tables with org-scoped policies, and the commands a policy is for
PolicyTables == {"users", "customers", "deals", "appointments", "leads"}

Commands == {"select", "insert", "update", "delete"}

\* a statement of command cmd meets a row of table tbl in a transaction whose
\* request.jwt.claims is one of in.settings: the row passes when the table's
\* policy for the command holds and the cast in it does not raise
EvaluatePolicy(tbl, cmd, in) ==
  \E j \in in.settings : \E r \in in.rows :
    /\ last' = [NoRequest EXCEPT !.route = tbl, !.verb = cmd, !.jwt = j, !.args = r,
                                 !.rows = IF PolicyUsing(tbl, cmd, j, r) /\ ~CastFails(j)
                                            THEN <<r>> ELSE <<>>,
                                 !.via = "policy"]
    /\ UNCHANGED <<dataVars, poolVars, view>>

\* time passes in the data store
Tick ==
  /\ now < MaxTime
  /\ now' = now + 1
  /\ UNCHANGED <<customers, leads, appointments, nextId, createdUnder, last,
                  poolVars, view>>

-----------------------------------------------------------------------------
(* withRLS on the connection pool, one step per await                       *)

\* new Pool({ max: 3 })
PoolMax == 3

NoConn == 0

\* rows of the seeded data store, whose ids precede the generated ones
SeedIds == {"1", "2"}

\* a pooled connection: the request whose transaction holds it, the values of
\* request.jwt.claims set for the transaction and for the session, and whether
\* an earlier transaction has used it
FreeConn ==
  [owner |-> NoConn, local |-> NoSetting, session |-> NoSetting, used |-> FALSE]

\* fn before it is invoked
NotInvoked == [state |-> "none", rows |-> <<>>, error |-> JsUndefined]

IdleSlot ==
  [pc |-> "idle", route |-> "none", verb |-> "none", body |-> NoArgs,
   auth |-> NoRequest.auth, client |-> "none", conn |-> NoConn, seen |-> NoSetting,
   invoked |-> 0, fn |-> NotInvoked, wrote |-> {}, thrown |-> JsUndefined,
   outcome |-> "none", rows |-> <<>>, raised |-> JsUndefined, status |-> 0]

\* variant of IdleConns: the pool hands out connections that are in use
AllConns(cs) == DOMAIN cs

\* the connections the pool can hand out: those no transaction holds
IdleConns(cs) == {c \in DOMAIN cs : cs[c].owner = NoConn}

\* variant of IsLocal: set_config(..., false), a session-wide setting
IsSession == FALSE

\* the third argument of set_config: the setting lasts for the transaction
IsLocal == TRUE

\* set_config('request.jwt.claims', v, is_local) on a connection
SetClaims(conn, v) ==
  IF IsLocal THEN [conn EXCEPT !.local = v] ELSE [conn EXCEPT !.session = v]

\* current_setting('request.jwt.claims', true) as a statement on the
\* connection reads it
CurrentSetting(conn) == IF conn.local # NoSetting THEN conn.local ELSE conn.session

\* commit or rollback, then client.release(): the transaction's settings are
\* discarded and the connection goes back to the pool
Released(conn) ==
  [conn EXCEPT !.owner = NoConn, !.local = NoSetting, !.used = TRUE]

\* the tables as a statement of request s reads them: the committed rows and
\* the rows its own transaction wrote
ViewOf(s) ==
  IF slots[s].wrote = {} THEN Db
  ELSE [Db EXCEPT ![TableOf(slots[s].route)] = @ \cup slots[s].wrote]

\* an insert waits while another open transaction holds a row with its unique key
Waits(s, row) ==
  \E t \in 1..MaxSlots :
    /\ t # s
    /\ slots[t].conn # NoConn
    /\ TableOf(slots[t].route) = TableOf(slots[s].route)
    /\ \E p \in slots[t].wrote :
         ~UniqueOk([Db EXCEPT ![TableOf(slots[s].route)] = {p, row}])

\* the page size of a list request without a limit parameter
DefaultLimit == PageLimit(<<>>)

\* a handler passed getAuth and its checks and calls withRLS(claims, fn)
Arrive(s, in) ==
  /\ slots[s].pc = "idle"
  /\ \E route \in in.routes : \E h \in in.hdrs : \E idp \in Answers(route, h, in) :
     \E verb \in in.verbs :
     \E body \in IF verb = "POST" THEN Bodies(route, "POST", in) ELSE {NoArgs} :
       LET auth == GetAuth(route, h, idp) IN
       /\ auth.ok
       /\ verb = "POST" => PostError(route, MapInput(route, body)) = JsUndefined
       /\ slots' = [slots EXCEPT ![s] =
                      [IdleSlot EXCEPT !.pc = "call", !.route = route, !.verb = verb,
                                       !.body = body, !.auth = auth,
                                       !.client = "waiting"]]
  /\ UNCHANGED <<dataVars, rowSecurity, view, conns, last>>

\* the client goes away while its request is being handled; the handler runs on
Disconnect(s) ==
  /\ slots[s].pc \in {"begun", "set"}
  /\ slots[s].client = "waiting"
  /\ slots' = [slots EXCEPT ![s].client = "gone"]
  /\ UNCHANGED <<dataVars, rowSecurity, view, conns, last>>

\* db.transaction: the pool hands out an idle connection, or opens one while
\* it has fewer than max; otherwise the request waits
Begin(s) ==
  /\ slots[s].pc = "call"
  /\ IF IdleConns(conns) # {}
       THEN \E c \in IdleConns(conns) :
              /\ conns' = [conns EXCEPT ![c].owner = s]
              /\ slots' = [slots EXCEPT ![s].pc = "begun", ![s].conn = c]
       ELSE /\ Len(conns) < PoolMax
            /\ conns' = Append(conns, [FreeConn EXCEPT !.owner = s])
            /\ slots' = [slots EXCEPT ![s].pc = "begun", ![s].conn = Len(conns) + 1]
  /\ UNCHANGED <<dataVars, rowSecurity, view, last>>

\* await tx.execute(select set_config('request.jwt.claims', ..., true)); when
\* the statement fails the callback throws before fn(tx)
SetConfig(s) ==
  /\ slots[s].pc = "begun"
  /\ \/ /\ conns' = [conns EXCEPT ![slots[s].conn] =
                       SetClaims(@, ClaimsSetting(slots[s].route, slots[s].auth))]
        /\ slots' = [slots EXCEPT ![s].pc = "set"]
     \/ /\ conns' = conns
        /\ slots' = [slots EXCEPT ![s].pc = "failed", ![s].thrown = "set_config failed"]
  /\ UNCHANGED <<dataVars, rowSecurity, view, last>>

\* what fn's statement did: it raised, it returned its rows, or it ran and its
\* result did not reach fn's caller
FnOutcomes(out, written) ==
  IF out.err
    THEN {[fn |-> [state |-> "raised", rows |-> <<>>, error |-> "database error"],
           wrote |-> {}]}
    ELSE {[fn |-> [state |-> "returned", rows |-> out.rows, error |-> JsUndefined],
           wrote |-> written]}
         \cup (IF written = {} THEN {}
               ELSE {[fn |-> [state |-> "raised", rows |-> <<>>,
                              error |-> "result lost"],
                      wrote |-> written]})

\* fn's statement has run in the transaction of request s
Ran(s, j, o) ==
  slots' = [slots EXCEPT ![s].pc = IF o.fn.state = "returned" THEN "ran" ELSE "failed",
                         ![s].seen = j, ![s].invoked = @ + 1, ![s].fn = o.fn,
                         ![s].wrote = o.wrote, ![s].thrown = o.fn.error]

\* return fn(tx): the handler's statement, under the setting of its connection
Run(s) ==
  /\ slots[s].pc = "set"
  /\ LET j == CurrentSetting(conns[slots[s].conn])
         tbl == TableOf(slots[s].route)
     IN
     IF slots[s].verb = "GET"
       THEN LET w == [orgId |-> slots[s].auth.orgId, after |-> NoTime,
                      sortDesc |-> TRUE, limit |-> DefaultLimit]
            IN /\ \E out \in SelectPage(tbl, w, j, ViewOf(s)) :
                    \E o \in FnOutcomes(out, {}) : Ran(s, j, o)
               /\ UNCHANGED nextId
       ELSE LET row == InsertValues(slots[s].route,
                                    MapInput(slots[s].route, slots[s].body),
                                    slots[s].auth, ToString(nextId), now)
                out == InsertRow(tbl, row, j, ViewOf(s))
            IN /\ nextId <= Cardinality(SeedIds) + MaxIds
               /\ ~Waits(s, row)
               /\ \E o \in FnOutcomes(out, {row}) : Ran(s, j, o)
               /\ nextId' = nextId + 1
  /\ UNCHANGED <<customers, leads, appointments, now, createdUnder, rowSecurity, view,
                 conns, last>>

\* the tables once the rows a transaction wrote are committed
Published(s) == [Db EXCEPT ![TableOf(slots[s].route)] = @ \cup slots[s].wrote]

\* fn resolved: commit, which publishes the transaction's rows and discards its
\* settings, release, and withRLS resolves with fn's result
Commit(s) ==
  /\ slots[s].pc = "ran"
  /\ conns' = [conns EXCEPT ![slots[s].conn] = Released(@)]
  /\ customers' = Published(s).customers
  /\ leads' = Published(s).leads
  /\ appointments' = Published(s).appointments
  /\ createdUnder' =
       [i \in DOMAIN createdUnder \cup {p.id : p \in slots[s].wrote} |->
          IF i \in DOMAIN createdUnder THEN createdUnder[i]
          ELSE slots[s].auth.orgId]
  /\ slots' = [slots EXCEPT ![s].pc = "done", ![s].conn = NoConn,
                            ![s].outcome = "committed", ![s].rows = slots[s].fn.rows,
                            ![s].status = IF slots[s].verb = "POST" THEN 201 ELSE 200]
  /\ UNCHANGED <<now, nextId, rowSecurity, view, last>>

\* variant of Rollback: the rows the failed transaction wrote are published
RollbackPublishing(s) ==
  /\ slots[s].pc = "failed"
  /\ conns' = [conns EXCEPT ![slots[s].conn] = Released(@)]
  /\ customers' = Published(s).customers
  /\ leads' = Published(s).leads
  /\ appointments' = Published(s).appointments
  /\ slots' = [slots EXCEPT ![s].pc = "done", ![s].conn = NoConn,
                            ![s].outcome = "rolledback",
                            ![s].raised = slots[s].thrown, ![s].status = 500]
  /\ UNCHANGED <<now, nextId, createdUnder, rowSecurity, view, last>>

\* variant of Rollback: after the rollback the transaction is started again
RollbackAndRetry(s) ==
  /\ slots[s].pc = "failed"
  /\ conns' = [conns EXCEPT ![slots[s].conn] = Released(@)]
  /\ slots' = [slots EXCEPT ![s].pc = "call", ![s].conn = NoConn,
                            ![s].thrown = JsUndefined]
  /\ UNCHANGED <<dataVars, rowSecurity, view, last>>

\* variant of Rollback: withRLS rejects and the connection is not released
RollbackWithoutRelease(s) ==
  /\ slots[s].pc = "failed"
  /\ slots' = [slots EXCEPT ![s].pc = "done", ![s].outcome = "rolledback",
                            ![s].raised = slots[s].thrown, ![s].status = 500]
  /\ UNCHANGED <<dataVars, rowSecurity, view, conns, last>>

\* the callback threw: rollback, which discards the transaction's rows and
\* settings, release, and withRLS rejects with what was thrown; the handler's
\* catch answers 500
Rollback(s) ==
  /\ slots[s].pc = "failed"
  /\ conns' = [conns EXCEPT ![slots[s].conn] = Released(@)]
  /\ slots' = [slots EXCEPT ![s].pc = "done", ![s].conn = NoConn,
                            ![s].outcome = "rolledback",
                            ![s].raised = slots[s].thrown, ![s].status = 500]
  /\ UNCHANGED <<dataVars, rowSecurity, view, last>>

\* the response is sent, to a client that may have gone
Respond(s) ==
  /\ slots[s].pc = "done"
  /\ slots' = [slots EXCEPT ![s] = IdleSlot]
  /\ UNCHANGED <<dataVars, rowSecurity, view, conns, last>>

-----------------------------------------------------------------------------
(* Inputs                                                                   *)

BearerOf(t) == <<"Bearer", "SP", t>>

FirstPage == [after |-> NoTime, sortDesc |-> TRUE, limit |-> <<>>]

LeadBody(id, name, visited, customer) ==
  [id |-> id, bride_name |-> name, bride_phone |-> JsUndefined,
   visited |-> visited, customer_id |-> customer]

CustomerBody(id, name, phone, email) ==
  [id |-> id, name |-> name, phone |-> phone, email |-> email]

ApptBody(id, customer, staff, start, end) ==
  [id |-> id, customer_id |-> customer, staff_id |-> staff,
   start_at |-> start, end_at |-> end]

BodyIds == {JsUndefined} \cup Ids

-----------------------------------------------------------------------------
(* The leads page                                                           *)

\* the page's state before its first fetch: the rows shown, the cursor of the
\* next page (NoTime for null), the sort and limit of the list, the changes
\* the realtime channel has yet to hand to the callback and the optimistic
\* request in flight; fresh is history: rows is what fetchList and loadMore
\* returned, with no write and no other list update since
NoView ==
  [rows |-> <<>>, nextCursor |-> NoTime, sortDesc |-> TRUE, limit |-> <<>>,
   events |-> <<>>, fresh |-> FALSE,
   pending |-> [kind |-> "none", id |-> JsNull, idx |-> 0, prev |-> <<>>,
                value |-> FALSE]]

\* rows.map(normalizeLead)
NormalizeLead(rows) ==
  [i \in DOMAIN rows |-> [rows[i] EXCEPT !.visited = (rows[i].visited = TRUE)]]

\* copy[idx] = row: past the end the array grows and leaves holes
SetAt(s, idx, row) ==
  IF idx <= Len(s) THEN [s EXCEPT ![idx] = row]
  ELSE s \o [k \in 1..(idx - Len(s) - 1) |-> [id |-> JsUndefined]] \o <<row>>

\* s.filter((r) => r.id !== id): holes are skipped
WithoutId(s, id) == SelectSeq(s, LAMBDA r : r.id # id /\ r.id # JsUndefined)

\* authHeader and the handler's getAuth: the claims of the page's requests
Session(in) ==
  UNION {{GetAuth("leads", h, idp) : idp \in Answers("leads", h, in)} : h \in in.hdrs}

\* whether the realtime service hands a change to this browser depends on the
\* session token and the publication: the changes queued after evs happened
Emitted(evs) ==
  {view.events} \cup
    (IF Len(view.events) + Len(evs) <= MaxEvents THEN {view.events \o evs} ELSE {})

\* apiGet("/api/leads?..."): the handler's page and its nextCursor
ApiGet(auth, after, sortDesc, limit) ==
  LET w == [orgId |-> auth.orgId, after |-> after, sortDesc |-> sortDesc,
            limit |-> PageLimit(limit)]
      page(out) ==
        [ok |-> ~out.err, rows |-> out.rows,
         nextCursor |-> NextCursor("leads", out.rows, w.limit)]
  IN IF ~auth.ok THEN {[ok |-> FALSE, rows |-> <<>>, nextCursor |-> NoTime]}
     ELSE {page(out) : out \in SelectPage("leads", w, ClaimsSetting("leads", auth), Db)}

\* fetchList: the first page replaces the list (a failed request sets err only)
FetchList(in) ==
  \E auth \in Session(in) : \E sortDesc \in in.sorts : \E limit \in in.limits :
  \E res \in ApiGet(auth, NoTime, sortDesc, limit) :
    /\ res.ok
    /\ view' = [view EXCEPT !.rows = NormalizeLead(res.rows),
                            !.nextCursor = res.nextCursor,
                            !.sortDesc = sortDesc, !.limit = limit, !.fresh = TRUE]
    /\ UNCHANGED <<dataVars, poolVars, last>>

\* loadMore: the page after nextCursor is appended (a failed request: noop)
LoadMore(in) ==
  \E auth \in Session(in) :
  \E res \in ApiGet(auth, view.nextCursor, view.sortDesc, view.limit) :
    /\ view.nextCursor # NoTime
    /\ res.ok
    /\ Len(view.rows) + Len(res.rows) <= MaxRows
    /\ view' = [view EXCEPT !.rows = @ \o NormalizeLead(res.rows),
                            !.nextCursor = res.nextCursor]
    /\ UNCHANGED <<dataVars, poolVars, last>>

\* createLead with POST /api/leads: the returned row is prepended (a failed
\* request alerts only)
CreateLead(in) ==
  \E auth \in Session(in) : \E body \in in.leadPosts :
    LET data == MapInput("leads", body)
        id == ToString(nextId)
        row == InsertValues("leads", data, auth, id, now)
        out == InsertRow("leads", row, ClaimsSetting("leads", auth), Db)
    IN /\ nextId <= MaxIds
       /\ Len(view.rows) < MaxRows
       /\ auth.ok /\ PostError("leads", data) = JsUndefined /\ ~out.err
       /\ leads' = out.db.leads
       /\ nextId' = nextId + 1
       /\ createdUnder' = (id :> auth.orgId) @@ createdUnder
       /\ \E evs \in Emitted(<<[type |-> "INSERT", row |-> row]>>) :
            view' = [view EXCEPT !.rows = NormalizeLead(out.rows) \o @,
                                 !.events = evs, !.fresh = FALSE]
       /\ UNCHANGED <<customers, appointments, now, poolVars, last>>

\* the postgres_changes callback
OnChange ==
  /\ view.events # <<>>
  /\ Head(view.events).type = "INSERT" => Len(view.rows) < MaxRows
  /\ LET e == Head(view.events)
         next == NormalizeLead(<<e.row>>)[1]
     IN view' = [view EXCEPT
                   !.events = Tail(@), !.fresh = FALSE,
                   !.rows = CASE e.type = "INSERT" -> <<next>> \o @
                              [] e.type = "UPDATE" ->
                                   [i \in DOMAIN @ |-> IF @[i].id = next.id THEN next
                                                       ELSE @[i]]
                              [] e.type = "DELETE" -> WithoutId(@, e.row.id)]
  /\ UNCHANGED <<dataVars, poolVars, last>>

\* toggleLead(id, "visited", !checked) up to its await: the optimistic write
\* at the index rows.findIndex gave
ToggleLead(in) ==
  \E id \in {view.rows[i].id : i \in DOMAIN view.rows} \ {JsUndefined} :
    LET idx == CHOOSE i \in DOMAIN view.rows :
                 view.rows[i].id = id /\ \A k \in 1..(i - 1) : view.rows[k].id # id
        value == ~view.rows[idx].visited
    IN
    /\ view.pending.kind = "none"
    /\ \A k \in 1..(idx - 1) : view.rows[k].id # JsUndefined
    /\ view' = [view EXCEPT
                  !.rows[idx].visited = value, !.fresh = FALSE,
                  !.pending = [kind |-> "toggle", id |-> id, idx |-> idx,
                               prev |-> <<view.rows[idx]>>, value |-> value]]
    /\ UNCHANGED <<dataVars, poolVars, last>>

\* toggleLead after its await: PATCH /api/leads answered, or the request
\* failed and the catch writes the previous row back at the index
ToggleLeadSettled(in) ==
  \E auth \in Session(in) : \E reached \in BOOLEAN :
    LET op == view.pending
        body == LeadBody(op.id, JsUndefined, IF op.value THEN JsTrue ELSE JsFalse,
                         JsUndefined)
        data == MapInput("leads", body)
        patch == DefinedColumns(data, {})
        out == UpdateById("leads", op.id, patch, ClaimsSetting("leads", auth), Db)
        ok == /\ reached /\ auth.ok /\ ~out.err
              /\ PatchError("leads", body, data, patch) = JsUndefined
    IN /\ op.kind = "toggle"
       /\ leads' = IF ok THEN out.db.leads ELSE leads
       /\ IF ok
            THEN \E evs \in Emitted([i \in DOMAIN out.rows |->
                                       [type |-> "UPDATE", row |-> out.rows[i]]]) :
                   view' = [view EXCEPT !.events = evs, !.pending = NoView.pending]
            ELSE view' = [view EXCEPT !.rows = SetAt(@, op.idx, op.prev[1]),
                                      !.pending = NoView.pending]
       /\ UNCHANGED <<customers, appointments, now, nextId, createdUnder, poolVars,
                      last>>

\* removeLead up to its await: the row is filtered out of the list
RemoveLead(in) ==
  \E id \in {view.rows[i].id : i \in DOMAIN view.rows} \ {JsUndefined} :
    /\ view.pending.kind = "none"
    /\ view' = [view EXCEPT
                  !.rows = WithoutId(@, id), !.fresh = FALSE,
                  !.pending = [kind |-> "remove", id |-> id, idx |-> 0,
                               prev |-> view.rows, value |-> FALSE]]
    /\ UNCHANGED <<dataVars, poolVars, last>>

\* removeLead after its await: DELETE /api/leads answered, or the request
\* failed and the catch sets the list it had before
RemoveLeadSettled(in) ==
  \E auth \in Session(in) : \E reached \in BOOLEAN :
    LET op == view.pending
        out == DeleteById("leads", op.id, ClaimsSetting("leads", auth), Db)
        ok == reached /\ auth.ok /\ ~out.err
    IN /\ op.kind = "remove"
       /\ leads' = IF ok THEN out.db.leads ELSE leads
       /\ IF ok
            THEN \E evs \in Emitted([i \in DOMAIN out.rows |->
                                       [type |-> "DELETE", row |-> out.rows[i]]]) :
                   view' = [view EXCEPT !.events = evs, !.pending = NoView.pending]
            ELSE view' = [view EXCEPT !.rows = op.prev, !.pending = NoView.pending]
       /\ UNCHANGED <<customers, appointments, now, nextId, createdUnder, poolVars,
                      last>>

\* Spec: three identities of two organizations and a request without a header;
\* creations with and without references, updates and deletions by id
DataInputs ==
  [hdrs |-> {<<>>} \cup {BearerOf(t) : t \in {"tokA", "tokS", "tokB"}},
   kinds |-> {"user"},
   queries |-> {FirstPage, [after |-> MaxTime, sortDesc |-> TRUE, limit |-> <<"1">>]},
   ids |-> Ids,
   leadPosts |-> {LeadBody(JsUndefined, "n1", JsUndefined, c) : c \in {JsUndefined, "1"}},
   leadPatches |-> {LeadBody(i, JsUndefined, JsTrue, JsUndefined) : i \in Ids},
   customerPosts |-> {CustomerBody(JsUndefined, "n1", "p1", JsUndefined)},
   customerPatches |-> {CustomerBody(i, JsUndefined, JsUndefined, "e1") : i \in Ids},
   apptPosts |-> {ApptBody(JsUndefined, "1", st, 1, 2) : st \in {JsUndefined, "uS"}},
   apptPatches |-> {ApptBody(i, JsUndefined, "uS", NoTime, NoTime) : i \in Ids}]

-----------------------------------------------------------------------------
(* Specifications                                                           *)

Init ==
  /\ rowSecurity \in {"enforced", "bypassed"}
  /\ customers = {}
  /\ leads = {}
  /\ appointments = {}
  /\ now = 1
  /\ nextId = 1
  /\ createdUnder = <<>>
  /\ last = NoRequest
  /\ conns = <<>>
  /\ slots = [s \in 1..MaxSlots |-> IdleSlot]
  /\ view = NoView

Next ==
  \E route \in Routes :
    \/ GET(route, DataInputs)
    \/ POST(route, DataInputs)
    \/ PATCH(route, DataInputs)
    \/ DELETE(route, DataInputs)

Spec == Init /\ [][Next]_vars

\* SpecAuth: every shape of header the handlers can receive, every identity
\* and every answer of the provider; bodies that stop at validation
Headers ==
  {<<>>, <<"Bearer">>, <<"tokA">>, <<"Basic", "SP", "tokA">>,
   <<"bearer", "SP", "SP", "tokA">>, BearerOf("tokZ")}
  \cup {BearerOf(t) : t \in Tokens \ {"tokS", "tokB"}}

AuthInputs ==
  [hdrs |-> Headers,
   kinds |-> {"user", "error", "nouser", "throw"},
   queries |-> {FirstPage},
   ids |-> {"1"},
   leadPosts |-> {LeadBody(JsUndefined, JsUndefined, JsUndefined, JsUndefined)},
   leadPatches |-> {LeadBody("1", JsUndefined, JsTrue, JsUndefined)},
   customerPosts |-> {CustomerBody(JsUndefined, JsUndefined, "p1", JsUndefined)},
   customerPatches |-> {CustomerBody("1", JsUndefined, JsUndefined, "e1")},
   apptPosts |-> {ApptBody(JsUndefined, JsUndefined, JsUndefined, 1, 1)},
   apptPatches |-> {ApptBody("1", JsUndefined, "uS", NoTime, NoTime)}]

NextAuth ==
  \E route \in Routes :
    \/ GET(route, AuthInputs)
    \/ POST(route, AuthInputs)
    \/ PATCH(route, AuthInputs)
    \/ DELETE(route, AuthInputs)

SpecAuth == Init /\ [][NextAuth]_vars

\* SpecTx: list requests of three identities to the customers and leads
\* the request body with members org_id and orgId besides its own
WithOrg(body, org) ==
  [k \in DOMAIN body \cup {"org_id", "orgId"} |-> IF k \in DOMAIN body THEN body[k] ELSE org]

\* SpecApp: an admin and a manager of two organizations create and patch rows
\* with bodies that name an organization, and their pages subscribe to changes
AppInputs ==
  [hdrs |-> {BearerOf(t) : t \in {"tokA", "tokB"}},
   kinds |-> {"user"},
   leadPosts |-> {WithOrg(LeadBody(JsUndefined, "n1", JsUndefined, JsUndefined), o) :
                    o \in Orgs},
   leadPatches |-> {WithOrg(LeadBody(i, JsUndefined, JsTrue, JsUndefined), o) :
                      i \in Ids, o \in Orgs},
   customerPosts |-> {WithOrg(CustomerBody(JsUndefined, "n1", "p1", JsUndefined), o) :
                        o \in Orgs},
   customerPatches |-> {WithOrg(CustomerBody(i, JsUndefined, JsUndefined, "e1"), o) :
                          i \in Ids, o \in Orgs},
   apptPosts |-> {WithOrg(ApptBody(JsUndefined, "1", JsUndefined, 1, 2), o) :
                    o \in Orgs},
   apptPatches |-> {WithOrg(ApptBody(i, JsUndefined, "uS", NoTime, NoTime), o) :
                      i \in Ids, o \in Orgs}]

NextApp ==
  \/ \E route \in Routes : POST(route, AppInputs) \/ PATCH(route, AppInputs)
  \/ \E page \in Pages : Subscribe(page, AppInputs)

SpecApp == Init /\ [][NextApp]_vars

\* SpecPolicy: the claims settings withRLS can write (the legacy handlers' key
\* org_id, the typed handlers' key orgId, roles and organizations of every
\* shape) against rows of both organizations
PolicyInputs ==
  [settings |->
     {JsonStringify([sub |-> "uA", role |-> r, org_id |-> o]) :
        r \in {"admin", "manager", "staff", JsUndefined},
        o \in Orgs \cup {JsUndefined, JsNull}}
     \cup {JsonStringify([sub |-> "uA", role |-> r, orgId |-> o]) :
              r \in {"admin", "staff"}, o \in Orgs},
   rows |-> {[id |-> "1", orgId |-> o] : o \in Orgs}]

NextPolicy ==
  \E tbl \in PolicyTables : \E cmd \in Commands : EvaluatePolicy(tbl, cmd, PolicyInputs)

SpecPolicy == Init /\ [][NextPolicy]_vars

\* handlers, overlapping on the pool, over a data store that holds one customer
\* of each organization
TxInputs ==
  [routes |-> {"customers", "leads"},
   hdrs |-> {BearerOf(t) : t \in {"tokA", "tokB", "tokX"}},
   kinds |-> {"user"},
   verbs |-> {"GET"},
   leadPosts |-> {},
   customerPosts |-> {}]

SeedCustomers ==
  { [id |-> "1", orgId |-> "org1", name |-> "n1", phone |-> "p1",
     email |-> SqlNull, createdAt |-> 1],
    [id |-> "2", orgId |-> "org2", name |-> "n1", phone |-> "p1",
     email |-> SqlNull, createdAt |-> 1] }

InitTx ==
  /\ rowSecurity \in {"enforced", "bypassed"}
  /\ customers = SeedCustomers
  /\ leads = {}
  /\ appointments = {}
  /\ now = 1
  /\ nextId = 3
  /\ createdUnder = [i \in SeedIds |-> IF i = "1" THEN "org1" ELSE "org2"]
  /\ last = NoRequest
  /\ conns = <<>>
  /\ slots = [s \in 1..MaxSlots |-> IdleSlot]
  /\ view = NoView

NextTx ==
  \E s \in 1..MaxSlots :
    \/ Arrive(s, TxInputs)
    \/ Disconnect(s)
    \/ Begin(s)
    \/ SetConfig(s)
    \/ Run(s)
    \/ Commit(s)
    \/ Rollback(s)
    \/ Respond(s)

SpecTx == InitTx /\ [][NextTx]_vars

\* handlers that list and create customers, overlapping on the pool
TxWriteInputs ==
  [routes |-> {"customers"},
   hdrs |-> {BearerOf(t) : t \in {"tokA", "tokB"}},
   kinds |-> {"user"},
   verbs |-> {"GET", "POST"},
   leadPosts |-> {},
   customerPosts |-> {CustomerBody(JsUndefined, "n2", "p2", JsUndefined)}]

NextTxWrite ==
  \E s \in 1..MaxSlots :
    \/ Arrive(s, TxWriteInputs)
    \/ Disconnect(s)
    \/ Begin(s)
    \/ SetConfig(s)
    \/ Run(s)
    \/ Commit(s)
    \/ Rollback(s)
    \/ Respond(s)

SpecTxWrite == InitTx /\ [][NextTxWrite]_vars

\* handlers that list customers for a member of an organization and for an
\* identity whose organization is not a uuid
TxFairInputs ==
  [routes |-> {"customers"},
   hdrs |-> {BearerOf(t) : t \in {"tokA", "tokX"}},
   kinds |-> {"user"},
   verbs |-> {"GET"},
   leadPosts |-> {},
   customerPosts |-> {}]

\* the next await of request s settles
Settle(s) ==
  Begin(s) \/ SetConfig(s) \/ Run(s) \/ Commit(s) \/ Rollback(s) \/ Respond(s)

NextTxFair ==
  \E s \in 1..MaxSlots :
    \/ Arrive(s, TxFairInputs)
    \/ Disconnect(s)
    \/ Settle(s)

\* every await of withRLS settles: the pool, the data store and the response
\* each answer in the end
SpecTxFair ==
  /\ InitTx
  /\ [][NextTxFair]_vars
  /\ \A s \in 1..MaxSlots : WF_vars(Settle(s))

-----------------------------------------------------------------------------
(* Properties                                                               *)

ServedOk(verb) == last.verb = verb /\ last.auth.ok /\ last.tx /\ last.status < 400

\* C1. Cross-tenant read isolation: every row a GET returns was created under
\* claims of the organization the GET runs for, whatever the cursor and limit.
ReadIsolation ==
  ServedOk("GET") =>
    \A i \in DOMAIN last.rows : createdUnder[last.rows[i].id] = last.auth.orgId

\* a GET answered with rows while its table holds a row created under another
\* organization's claims
ReadIsolationWitness ==
  /\ ServedOk("GET")
  /\ last.rows # <<>>
  /\ \E r \in Db[TableOf(last.route)] : createdUnder[r.id] # last.auth.orgId

\* C2. Read-your-own-org write: right after a POST has created a row, the first
\* page of a GET of the same handler under the same claims contains that row
\* and only rows of the caller's organization.
ReadYourWrite ==
  [][(last'.verb = "POST" /\ last'.status = 201) =>
       \A out \in SelectPage(TableOf(last'.route),
                              [orgId |-> last'.auth.orgId, after |-> NoTime,
                               sortDesc |-> TRUE, limit |-> PageLimit(<<>>)],
                              last'.jwt,
                              [customers |-> customers', leads |-> leads',
                               appointments |-> appointments']) :
         /\ ~out.err
         /\ \E i \in DOMAIN out.rows : out.rows[i] = last'.rows[1]
         /\ \A i \in DOMAIN out.rows : out.rows[i].orgId = last'.auth.orgId]_vars

\* a staff identity created a row while the policies bind the pool's role
ReadYourWriteWitness ==
  /\ last.verb = "POST" /\ last.status = 201
  /\ last.auth.role = "staff"
  /\ rowSecurity = "enforced"
  /\ last.rows[1] \in Db[TableOf(last.route)]

\* C3. Cross-tenant write isolation: a PATCH or DELETE leaves every row of an
\* organization other than the caller's present and unchanged.
WriteIsolation ==
  [][(last'.verb \in {"PATCH", "DELETE"} /\ last'.auth.ok) =>
       /\ \A r \in customers : r.orgId # last'.auth.orgId => r \in customers'
       /\ \A r \in leads : r.orgId # last'.auth.orgId => r \in leads'
       /\ \A r \in appointments : r.orgId # last'.auth.orgId => r \in appointments']_vars

\* C4. No cross-org reference: a lead's or appointment's customer, and an
\* appointment's staff member, belong to the row's own organization.
NoCrossOrgReference ==
  /\ \A l \in leads : \A c \in customers :
       c.id = l.customerId => c.orgId = l.orgId
  /\ \A a \in appointments :
       /\ \A c \in customers : c.id = a.customerId => c.orgId = a.orgId
       /\ \A u \in PublicUsers : u.id = a.staffId => u.orgId = a.orgId

\* C5. Claims isolation between concurrent transactions: a transaction's
\* connection is its own, and its query reads the claims its own withRLS set.
ClaimsIsolation ==
  \A s \in 1..MaxSlots :
    /\ slots[s].invoked > 0 =>
         slots[s].seen = ClaimsSetting(slots[s].route, slots[s].auth)
    /\ slots[s].pc = "set" =>
         CurrentSetting(conns[slots[s].conn]) =
           ClaimsSetting(slots[s].route, slots[s].auth)
    /\ slots[s].conn # NoConn =>
         /\ conns[slots[s].conn].owner = s
         /\ \A t \in 1..MaxSlots : t # s => slots[t].conn # slots[s].conn

\* two transactions of different organizations, both past their query and
\* neither committed
ClaimsIsolationWitness ==
  \E s, t \in 1..MaxSlots :
    /\ slots[s].pc = "ran" /\ slots[t].pc = "ran"
    /\ slots[s].auth.orgId # slots[t].auth.orgId
    /\ slots[s].fn.rows # <<>>

\* C6. Claims injection is readable by the policies: the setting of a handler's
\* transaction carries the request's org id, role and user id under the names
\* org_id, role and sub.
ClaimsReadable ==
  (last.tx /\ last.auth.ok) =>
    /\ JsonText(last.jwt, "org_id") = last.auth.orgId
    /\ JsonText(last.jwt, "role") = last.auth.role
    /\ JsonText(last.jwt, "sub") = last.auth.sub

\* C7. A request whose Authorization header is absent, or is the Bearer scheme
\* with no value, is answered 401 'Missing Authorization Bearer token' without
\* a call to the identity provider and without a transaction.
MissingBearerRefused ==
  (/\ last.route # "none"
   /\ IF last.hdr = <<>> THEN TRUE
      ELSE last.hdr[1] \in BearerWords /\ DropSpaces(Tail(last.hdr)) = <<>>)
  => /\ last.status = 401
     /\ last.error = "Missing Authorization Bearer token"
     /\ ~last.auth.called
     /\ ~last.tx

\* C8. A verified identity whose metadata has no string-typed, non-empty org_id
\* is answered 400 'Missing org_id in user metadata' and no transaction is
\* opened, in every handler.
MissingTenantRefused ==
  (/\ last.idp.kind = "user"
   /\ ~TypeofString(last.idp.user.org_id) \/ last.idp.user.org_id = "")
  => /\ last.status = 400
     /\ last.error = "Missing org_id in user metadata"
     /\ ~last.tx

GuestDefault ==
  last.auth.ok =>
    LET expected == IF TypeofString(last.idp.user.role)
                      THEN last.idp.user.role ELSE "guest"
    IN /\ last.auth.role = expected
       /\ last.tx => JsonText(last.jwt, "role") = expected

\* C11. Atomic rollback: when the claims-setting statement or the operation
\* fails inside withRLS the transaction is rolled back, no row it wrote is in
\* the committed tables or in what any request read, and after a failed
\* claims-setting statement the operation was never invoked.
AtomicRollback ==
  \A s \in 1..MaxSlots :
    (slots[s].pc = "done" /\ slots[s].thrown # JsUndefined) =>
      /\ slots[s].outcome = "rolledback"
      /\ \A r \in slots[s].wrote :
           /\ r \notin AllRows(Db)
           /\ \A t \in 1..MaxSlots :
                \A i \in DOMAIN slots[t].fn.rows : slots[t].fn.rows[i].id # r.id
      /\ slots[s].thrown = "set_config failed" =>
           slots[s].invoked = 0 /\ slots[s].fn = NotInvoked

\* a transaction that wrote a row was rolled back, and a list query has read
\* the table or another transaction's claims-setting statement failed
AtomicRollbackWitness ==
  \E s, t \in 1..MaxSlots :
    /\ slots[s].pc = "done" /\ slots[s].outcome = "rolledback" /\ slots[s].wrote # {}
    /\ \/ slots[t].verb = "GET" /\ slots[t].fn.rows # <<>>
       \/ slots[t].pc = "done" /\ slots[t].thrown = "set_config failed"

\* C12. withRLS outcome: the transaction is committed exactly when the
\* operation returned, and then withRLS resolves with the operation's result
\* and the rows it wrote are in the tables; when the operation raised, withRLS
\* rejects with that error after the rollback; the operation is invoked at most
\* once per call.
WithRlsOutcome ==
  \A s \in 1..MaxSlots :
    /\ slots[s].invoked <= 1
    /\ slots[s].pc = "done" =>
         /\ slots[s].outcome = "committed" <=> slots[s].fn.state = "returned"
         /\ slots[s].fn.state = "returned" =>
              /\ slots[s].rows = slots[s].fn.rows
              /\ slots[s].raised = JsUndefined
              /\ slots[s].wrote \subseteq Db[TableOf(slots[s].route)]
         /\ slots[s].fn.state = "raised" =>
              /\ slots[s].outcome = "rolledback"
              /\ slots[s].raised = slots[s].fn.error

\* one call resolved with the row its operation inserted and another rejected
\* with its operation's error
WithRlsOutcomeWitness ==
  \E s, t \in 1..MaxSlots :
    /\ slots[s].pc = "done" /\ slots[s].outcome = "committed" /\ slots[s].wrote # {}
    /\ slots[t].pc = "done" /\ slots[t].fn.state = "raised"
    /\ slots[t].raised = "database error"

\* C13. No claims survive on a pooled connection: a connection in the pool has
\* an empty request.jwt.claims, and a transaction that has begun and not yet
\* set its claims reads an empty setting on its connection.
NoClaimsSurvive ==
  /\ \A c \in DOMAIN conns :
       conns[c].owner = NoConn => CurrentSetting(conns[c]) = NoSetting
  /\ \A s \in 1..MaxSlots :
       slots[s].pc = "begun" => CurrentSetting(conns[slots[s].conn]) = NoSetting

\* a transaction has begun on a connection that an earlier transaction used
\* while another organization's claims are set on a second connection
NoClaimsSurviveWitness ==
  \E s, t \in 1..MaxSlots :
    /\ slots[s].pc = "begun" /\ conns[slots[s].conn].used
    /\ slots[t].pc = "set"
    /\ slots[t].auth.orgId # slots[s].auth.orgId

\* C14. Guaranteed cleanup: a request that holds a connection eventually holds
\* none (at every moment there is a later one at which it holds none), whether its operation returned or threw, its claims-setting statement
\* failed or its client went away; a request that has not begun or has ended
\* holds no connection, and no connection is held for it.
GuaranteedCleanup ==
  /\ \A s \in 1..MaxSlots : []<>(slots[s].conn = NoConn)
  /\ [](\A s \in 1..MaxSlots :
          slots[s].pc \in {"idle", "call", "done"} =>
            /\ slots[s].conn = NoConn
            /\ \A c \in DOMAIN conns : conns[c].owner # s)

\* a request whose client went away has ended with its transaction rolled back
\* and holds no connection, and so has one whose transaction committed
GuaranteedCleanupWitness ==
  \E s, t \in 1..MaxSlots :
    /\ slots[s].pc = "done" /\ slots[s].client = "gone"
    /\ slots[s].outcome = "rolledback" /\ slots[s].conn = NoConn
    /\ slots[t].pc = "done" /\ slots[t].outcome = "committed" /\ slots[t].conn = NoConn
    /\ \A c \in DOMAIN conns : conns[c].owner = NoConn

\* C15. org_id of a tenant-scoped row is fixed at creation: every row of the
\* tables has the org_id of the claims its POST ran under, whatever org_id the
\* body of that POST or of any later PATCH named.
OrgFixedAtCreation ==
  \A r \in AllRows(Db) : r.orgId = createdUnder[r.id]

\* a PATCH whose body names another organization than the caller's has
\* updated a row
OrgFixedAtCreationWitness ==
  /\ ServedOk("PATCH")
  /\ last.rows # <<>>
  /\ last.args.org_id \in Orgs \ {last.auth.orgId}
  /\ last.args.orgId \in Orgs \ {last.auth.orgId}

\* C16. Every read or write of leads, customers or appointments that the
\* application makes runs inside a withRLS transaction whose setting is the
\* caller's claims.
AllAccessThroughWithRLS ==
  last.via # "none" =>
    /\ last.via = "withRLS"
    /\ last.tx
    /\ last.jwt = ClaimsSetting(last.route, last.auth)

\* C17. Tenant isolation by the policy layer alone: whatever statement a
\* handler ran in its transaction, with or without an org_id predicate of its
\* own, the rows it read, wrote, updated or deleted have the org_id of the
\* session.
PolicyConfinement ==
  (last.via = "withRLS" /\ last.auth.ok /\ last.status < 400) =>
    \A i \in DOMAIN last.rows : last.rows[i].orgId = last.auth.orgId

\* the tables had no row of tbl the id, nor any row that refers to it
Without(db, tbl, id) ==
  IF tbl = "customers"
    THEN [customers |-> {r \in db.customers : r.id # id},
          leads |-> {r \in db.leads : r.customerId # id},
          appointments |-> {r \in db.appointments : r.customerId # id}]
    ELSE [db EXCEPT ![tbl] = {r \in @ : r.id # id}]

\* what PATCH or DELETE of the last request answers when no row has its id
AbsentAnswer ==
  LET tbl == TableOf(last'.route)
      j == ClaimsSetting(last'.route, last'.auth)
      absent == Without(Db, tbl, last'.args.id)
      out == IF last'.verb = "PATCH"
               THEN UpdateById(tbl, last'.args.id,
                               DefinedColumns(MapInput(last'.route, last'.args),
                                              TimeColumns(last'.route)),
                               j, absent)
               ELSE DeleteById(tbl, last'.args.id, j, absent)
  IN [status |-> IF out.err THEN 500 ELSE 200, rows |-> out.rows]

\* C18. Not-found and not-authorized are indistinguishable: a PATCH or DELETE
\* whose id names a row of another organization is answered, inside its
\* transaction, with the status and rows it would be answered with if no row
\* had that id.
ForeignIdLooksAbsent ==
  [][(/\ last'.verb \in {"PATCH", "DELETE"}
      /\ last'.auth.ok
      /\ last'.status # 400
      /\ \E r \in Db[TableOf(last'.route)] :
           r.id = last'.args.id /\ r.orgId # last'.auth.orgId)
     => /\ last'.tx
        /\ last'.status = AbsentAnswer.status
        /\ last'.rows = AbsentAnswer.rows]_vars

\* C19. Policy rule set: on users, customers, deals, appointments and leads a
\* row passes the policy of select, insert, update or delete only when the
\* claims setting has a member org_id equal to the row's org_id, and an update
\* of customers, deals or leads passes only when moreover its member role is
\* admin or manager.
PolicyRuleSet ==
  (last.via = "policy" /\ last.rows # <<>>) =>
    /\ "org_id" \in DOMAIN last.jwt
    /\ last.jwt.org_id = last.args.orgId
    /\ (last.verb = "update" /\ last.route \in {"customers", "deals", "leads"}) =>
         ("role" \in DOMAIN last.jwt /\ last.jwt.role \in {"admin", "manager"})

\* a manager's update of a lead of the manager's organization has passed
PolicyRuleSetWitness ==
  /\ last.via = "policy" /\ last.rows # <<>>
  /\ last.verb = "update" /\ last.route = "leads"
  /\ last.jwt.role = "manager"

\* C20. Error responses are generic: the body of a 401 that follows a failed
\* identity verification and the body of a 500 carry no detail, so neither the
\* provider's message nor the error's text reaches the client.
GenericErrors ==
  (\/ last.status = 401 /\ last.auth.called
   \/ last.status = 500)
  => last.detail = JsUndefined

GetAuthEquivalent ==
  last.idp.kind \notin {"none", "throw"} =>
    \A r \in Routes : GetAuth(r, last.hdr, last.idp) = last.auth

\* the body member a column is mapped from
FieldOf ==
  [brideName |-> "bride_name", bridePhone |-> "bride_phone", visited |-> "visited",
   customerId |-> "customer_id", name |-> "name", phone |-> "phone",
   email |-> "email", staffId |-> "staff_id", startAt |-> "start_at",
   endAt |-> "end_at"]

\* the body of the last request has no value for column c
NotInBody(c) ==
  IF c \in {"startAt", "endAt"} THEN last'.args[FieldOf[c]] = NoTime
  ELSE last'.args[FieldOf[c]] = JsUndefined

\* C22. PATCH is a partial update: a PATCH that updated a row left every
\* column whose field is absent from the request body at its previous value.
PatchIsPartial ==
  [][(last'.verb = "PATCH" /\ last'.tx /\ last'.status = 200) =>
       \A old \in Db[TableOf(last'.route)] :
         \A i \in DOMAIN last'.rows :
           old.id = last'.rows[i].id =>
             \A c \in DOMAIN FieldOf \cap DOMAIN old :
               NotInBody(c) => last'.rows[i][c] = old[c]]_vars

\* SpecTime: appointments created and rescheduled with every pair of bounds,
\* a PATCH naming both bounds, one of them or none
TimeInputs ==
  [hdrs |-> {BearerOf(t) : t \in {"tokA", "tokB"}},
   kinds |-> {"user"},
   apptPosts |-> {ApptBody(JsUndefined, JsUndefined, JsUndefined, a, b) :
                    a, b \in {NoTime} \cup Times},
   apptPatches |-> {ApptBody(i, JsUndefined, JsUndefined, a, b) :
                      i \in Ids, a, b \in {NoTime} \cup Times}]

NextTime ==
  \E route \in {"appointments", "appointmentsLegacy"} :
    POST(route, TimeInputs) \/ PATCH(route, TimeInputs)

SpecTime == Init /\ [][NextTime]_vars

\* C23. Appointment time validity: after every POST and PATCH each stored
\* appointment ends after it starts, and a request that was refused left the
\* stored appointments as they were.
ApptTimeValid ==
  [][/\ \A a \in appointments' : a.endAt > a.startAt
     /\ last'.status >= 400 => appointments' = appointments]_vars

\* a PATCH carrying only end_at, not after the stored start, was refused and
\* the appointment is still stored
ApptTimeValidWitness ==
  /\ last.verb = "PATCH" /\ last.tx /\ last.status = 500
  /\ last.args.start_at = NoTime /\ last.args.end_at # NoTime
  /\ \E a \in appointments : a.id = last.args.id /\ last.args.end_at <= a.startAt

\* SpecPhone: customers of two organizations created and renumbered with two
\* phone numbers
PhoneInputs ==
  [hdrs |-> {BearerOf(t) : t \in {"tokA", "tokB"}},
   kinds |-> {"user"},
   customerPosts |-> {CustomerBody(JsUndefined, "n1", p, JsUndefined) :
                        p \in {"p1", "p2"}},
   customerPatches |-> {CustomerBody(i, JsUndefined, p, JsUndefined) :
                          i \in Ids, p \in {"p1", "p2"}}]

NextPhone ==
  \E route \in {"customers", "customersTyped"} :
    POST(route, PhoneInputs) \/ PATCH(route, PhoneInputs)

SpecPhone == Init /\ [][NextPhone]_vars

\* C24. Customer phone is unique per organization: after every customer POST
\* and PATCH no two customers of one organization have the same phone, a
\* request that failed changed no row, and a POST of a phone that no customer
\* of the caller's organization has succeeds, whoever else has that phone.
PhoneUniquePerOrg ==
  [][/\ \A a, b \in customers' :
          (a.id # b.id /\ a.orgId = b.orgId) => a.phone # b.phone
     /\ last'.status >= 400 => customers' = customers
     /\ (/\ last'.verb = "POST" /\ last'.route = "customers" /\ last'.tx
         /\ \A c \in customers :
              c.orgId = last'.auth.orgId => c.phone # last'.args.phone)
        => last'.status = 201]_vars

\* a POST of a phone that a customer of the caller's organization has failed
\* on the index alone, and that customer is still stored
PhoneUniqueWitness ==
  /\ rowSecurity = "bypassed"
  /\ last.verb = "POST" /\ last.tx /\ last.status = 500
  /\ \E a \in customers : a.orgId = last.auth.orgId /\ a.phone = last.args.phone

\* SpecLimit: list requests whose limit parameter is any text of a sign, digits
\* and a letter, or is missing
LimitInputs ==
  [hdrs |-> {BearerOf("tokA")},
   kinds |-> {"user"},
   queries |-> {[after |-> NoTime, sortDesc |-> TRUE, limit |-> t] :
                  t \in UNION {[1..n -> {"-", "0", "2", "9", "x"}] : n \in 0..MaxLen}}]

NextLimit == \E route \in Routes : GET(route, LimitInputs)

SpecLimit == Init /\ [][NextLimit]_vars

\* C25. Page size bound: whatever the limit parameter of a list request, the
\* limit the handler applies is between 1 and 200, and is 50 when the
\* parameter is missing or is not a number.
PageSizeBound ==
  (last.verb = "GET" /\ last.auth.ok) =>
    /\ PageLimit(last.args.limit) \in 1..200
    /\ (last.args.limit = <<>> \/ ParseInt(last.args.limit).nan) =>
         PageLimit(last.args.limit) = 50

\* C28. Deleting within one's own org works: a DELETE by id under claims of
\* the row's organization (no lead referring to the row) answers 200 with the
\* row and the row is no longer stored, so that no later GET lists it.
DeleteOwnWorks ==
  [][(last'.verb = "DELETE" /\ last'.tx) =>
       \A r \in Db[TableOf(last'.route)] :
         (/\ r.id = last'.args.id /\ r.orgId = last'.auth.orgId
          /\ \A l \in leads : l.customerId # r.id)
         => /\ last'.status = 200
            /\ last'.rows = <<r>>
            /\ \A t \in {customers', leads', appointments'} : r \notin t]_vars

\* SpecList: the leads page of an admin, listing in either order by pages of
\* one or two rows and creating leads while the clock advances
ListInputs ==
  [hdrs |-> {BearerOf("tokA")},
   kinds |-> {"user"},
   sorts |-> BOOLEAN,
   limits |-> {<<"1">>, <<"2">>},
   leadPosts |-> {LeadBody(JsUndefined, "n1", JsUndefined, JsUndefined)}]

NextList ==
  \/ FetchList(ListInputs)
  \/ LoadMore(ListInputs)
  \/ CreateLead(ListInputs)
  \/ Tick

SpecList == Init /\ [][NextList]_vars

\* SpecPage: the same page listing newest first by pages of one row, creating,
\* toggling and removing leads while the realtime channel delivers changes
PageInputs ==
  [hdrs |-> {BearerOf("tokA")},
   kinds |-> {"user"},
   sorts |-> {TRUE},
   limits |-> {<<"1">>},
   leadPosts |-> {LeadBody(JsUndefined, "n1", JsUndefined, JsUndefined)}]

NextPage ==
  \/ FetchList(PageInputs)
  \/ LoadMore(PageInputs)
  \/ CreateLead(PageInputs)
  \/ OnChange
  \/ ToggleLead(PageInputs)
  \/ ToggleLeadSettled(PageInputs)
  \/ RemoveLead(PageInputs)
  \/ RemoveLeadSettled(PageInputs)

SpecPage == Init /\ [][NextPage]_vars

\* C26. Cursor pagination is complete and duplicate-free: when the list was
\* fetched and loaded page by page until nextCursor is null, on data that did
\* not change, it holds every lead of the caller's org exactly once, in the
\* order of the sort.
PaginationComplete ==
  (view.fresh /\ view.nextCursor = NoTime) =>
    /\ \A r \in leads :
         r.orgId = "org1" =>
           Cardinality({i \in DOMAIN view.rows : view.rows[i].id = r.id}) = 1
    /\ \A i \in DOMAIN view.rows : \E r \in leads : r.id = view.rows[i].id
    /\ Ordered("leads", view.rows, view.sortDesc)

\* C29. The client-side row list never holds two entries with the same id.
NoDuplicateIds ==
  \A i, j \in DOMAIN view.rows :
    (i # j /\ view.rows[i].id # JsUndefined) => view.rows[i].id # view.rows[j].id

\* the entries of a list other than those of one id
Others(s, id) == SelectSeq(s, LAMBDA r : r.id # id)

\* C30. Optimistic updates touch only their own row: the optimistic write and
\* the settling of toggleLead(id) and of removeLead(id) leave every list entry
\* of another id as it was and where it was among the others.
OptimisticOwnRow ==
  [][view'.pending.kind # view.pending.kind =>
       LET id == IF view.pending.kind = "none" THEN view'.pending.id
                 ELSE view.pending.id
       IN Others(view'.rows, id) = Others(view.rows, id)]_vars

=============================================================================
